---- MODULE Spec2Model ----
(***************************************************************************)
(* Wide Research: the parallel fan-out engine of                           *)
(* backend/agents/wide_research.py, as driven by the /agents/wide-research *)
(* handler of backend/main.py.                                             *)
(*                                                                         *)
(* One run is modelled: the handler builds a WideResearch (and with it an  *)
(* asyncio.Semaphore), calls execute, which creates one SubTask and one    *)
(* asyncio task per item, gathers them, partitions the outcomes, optionally*)
(* calls the synthesizer and builds the report.  asyncio is cooperative:   *)
(* the code between two awaits runs atomically, so every action below is   *)
(* one such segment.  The HTTP replies are the environment's choice.       *)
(*                                                                         *)
(* Spec and FairSpec are one run; ReuseSpec adds the cancellation of a run *)
(* and further runs on the same instance; QueueSpec is one run with more   *)
(* items than Spec has, so that several tasks queue for a permit.          *)
(***************************************************************************)
EXTENDS Integers, Sequences, FiniteSets, TLC

(* ---- bounds of the model ---- *)
MaxItems == 2
MaxConcurrent == 2
MaxElapsed == 1
MaxRuns == 2

(* ---- values ---- *)
NoneVal == "<None>"

\* a call that has not ended has no reply, an execute that has not
\* returned no report
NoReply ==
    [exc |-> NoneVal, status_code |-> 0, body |-> NoneVal, content |-> NoneVal]
NoReport == [returned |-> FALSE]
Instruction == "analyze"

PENDING == "pending"
PROCESSING == "processing"
COMPLETED == "completed"
FAILED == "failed"

(* HTTP replies of the chat-completion endpoint, and the exceptions the    *)
(* client raises instead of a reply.  A 200 body either has               *)
(* choices[0].message.content as a string, has it as JSON null, or lacks   *)
(* the structure.  str() of a timeout exception is the empty string.       *)
(* Strings are all TLA+ strings; None is the value NoneVal.                *)
(* r[:2000] at line 243 *)
TruncateAt == 2000

RECURSIVE Repeat(_, _)
Repeat(str, n) == IF n = 0 THEN "" ELSE str \o Repeat(str, n - 1)

\* a text one character longer than the synthesizer keeps of a result
LongText == Repeat("0123456789", TruncateAt \div 10) \o "x"

Texts == {"", "text", LongText}

Responses ==
    { [exc |-> "none", status_code |-> 200, body |-> "content", content |-> c] :
          c \in Texts \cup {NoneVal} }
    \cup { [exc |-> "none", status_code |-> 200, body |-> "no_choices",
            content |-> NoneVal] }
    \cup { [exc |-> "none", status_code |-> 500, body |-> "none",
            content |-> NoneVal] }
    \cup { [exc |-> e, status_code |-> 0, body |-> "none", content |-> NoneVal] :
          e \in {"ReadTimeout", "ConnectError"} }

SynthesisPrompts == {NoneVal, "", "combine"}
Callbacks == {"none", "ok", "raises"}

VARIABLES
    max_concurrent,     \* request.max_concurrent
    items,              \* request.items
    synthesis_prompt,   \* None, "" or a combining instruction
    progress_callback,  \* absent, well-behaved, or one that raises
    pc,                 \* position of the handler / of execute
    raised,             \* the exception that left the run, or NoneVal
    sem_value,          \* Semaphore._value
    sem_waiters,        \* Semaphore._waiters, a FIFO of tasks
    ready,              \* the event loop's FIFO of tasks ready to step
    subtasks,           \* the SubTask objects, by submission index
    task_pc,            \* position of each process_with_progress task
    calls,              \* processor (client.post) calls issued per item
    reply,              \* the reply each processor call got, or NoReply
    first_done,         \* the task whose processing ended first (0: none)
    completed,          \* the nonlocal completed counter
    cb_log,             \* the progress callback's invocations
    cb_seen,            \* what held when each of them was made
    results,            \* what asyncio.gather returned
    processing_time,    \* wall-clock time of the fan-out
    synth_calls,        \* inputs of the _synthesize_results calls made
    synth_reply,        \* the reply the synthesis call got, or NoReply
    combined,           \* combined_results of _synthesize_results, or NoneVal
    runs,               \* execute calls made on this instance so far
    run_b,              \* a second, overlapping execute call on the instance
    travel,             \* the travel_wide_research handler
    report              \* the dict execute returned, or NoReport

vars == << max_concurrent, items, synthesis_prompt, progress_callback, pc,
           raised, sem_value, sem_waiters, ready, subtasks, task_pc, calls,
           reply, first_done, completed, cb_log, cb_seen, results,
           processing_time, synth_calls, synth_reply, combined, runs,
           run_b, travel, report >>

inputs == << max_concurrent, items, synthesis_prompt, progress_callback >>

\* the state that belongs to the overlap and to the travel handler
elsewhere == << run_b, travel >>

N == Len(items)
Ids == 1..N

(* ---- pure helpers ---- *)

\* str(i + 1) for the ids of a run
PyStr(k) ==
    CASE k = 0 -> "0" [] k = 1 -> "1" [] k = 2 -> "2" [] k = 3 -> "3"
      [] k = 4 -> "4" [] k = 5 -> "5" [] OTHER -> "n"

\* variant: the id is taken from the payload
SubTaskIdFromItem(i, item) ==
    [ id |-> item, item |-> item, instruction |-> Instruction,
      status |-> PENDING, result |-> NoneVal, error |-> NoneVal,
      processing_time |-> "0.0" ]

\* SubTask(id=str(i + 1), item=item, instruction=instruction), with the
\* defaults of lines 39-42.  The engine never computes with a duration:
\* "0.0" is the default and "elapsed" a measured time.time() difference.
SubTask(i, item) ==
    [ id |-> PyStr(i), item |-> item, instruction |-> Instruction,
      status |-> PENDING, result |-> NoneVal, error |-> NoneVal,
      processing_time |-> "0.0" ]

\* f"API error: {response.status_code}"
ApiErrorText(code) ==
    IF code = 500 THEN "API error: 500" ELSE "API error: other"

\* str(e) of the exception caught at line 120
ExcText(r) ==
    CASE r.exc = "ReadTimeout" -> ""
      [] r.exc = "ConnectError" -> "All connection attempts failed"
      [] OTHER -> "'choices'"

\* variant: a 200 reply is a success whatever its body holds
ApplyReplyAny200(st, r) ==
    IF r.exc # "none"
    THEN [st EXCEPT !.error = ExcText(r), !.status = FAILED]
    ELSE IF r.status_code = 200
         THEN [st EXCEPT !.result = r.content, !.status = COMPLETED]
         ELSE [st EXCEPT !.error = ApiErrorText(r.status_code),
                         !.status = FAILED]

\* variant: the reply's content is stored as the item's payload too
ApplyReplyIntoItem(st, r) ==
    IF r.exc = "none" /\ r.status_code = 200 /\ r.body = "content"
    THEN [st EXCEPT !.result = r.content, !.item = r.content,
                    !.status = COMPLETED]
    ELSE [st EXCEPT !.error = "error", !.status = FAILED]

\* variant: the body of a reply is kept as the result before it is looked at
ApplyReplyStoresBody(st, r) ==
    IF r.exc # "none"
    THEN [st EXCEPT !.error = ExcText(r), !.status = FAILED]
    ELSE IF r.status_code = 200 /\ r.body = "content"
         THEN [st EXCEPT !.result = r.content, !.status = COMPLETED]
         ELSE [st EXCEPT !.result = r.body, !.error = "API error: other",
                         !.status = FAILED]

\* variant: a failed call puts the item back to PENDING for a retry
ApplyReplyRetry(st, r) ==
    IF r.exc = "none" /\ r.status_code = 200 /\ r.body = "content"
    THEN [st EXCEPT !.result = r.content, !.status = COMPLETED]
    ELSE [st EXCEPT !.error = "retry", !.status = PENDING]

\* lines 96-122: what one reply does to the subtask
ApplyReply(st, r) ==
    IF r.exc # "none"
    THEN [st EXCEPT !.error = ExcText(r), !.status = FAILED]
    ELSE IF r.status_code = 200
         THEN IF r.body = "no_choices"
              THEN [st EXCEPT !.error = ExcText(r), !.status = FAILED]
              ELSE [st EXCEPT !.result = r.content, !.status = COMPLETED]
         ELSE [st EXCEPT !.error = ApiErrorText(r.status_code),
                         !.status = FAILED]

\* subtask.processing_time = time.time() - start_time, line 124
Timed(st) == [st EXCEPT !.processing_time = "elapsed"]

\* a / b of Python as the quotient num/den; a zero divisor raises
PyDiv(a, b) == [num |-> a, den |-> b]
DivRaises(q) == q.den = 0
Zero == [num |-> 0, den |-> 1]

\* truth value of an Optional[str] in an `if`
Truthy(x) == x # NoneVal /\ x # ""

\* completed += 1 (line 170)
Increment(c) == c + 1

\* variant: the callback is given the count read before the increment
CallbackArgsStale(c, sts) == << c - 1, Len(sts) >>

\* the arguments of progress_callback(completed, len(subtasks)), line 172
CallbackArgs(c, sts) == << c, Len(sts) >>

\* variant: the results come back last submitted first
GatherResultsReversed(sts) == [k \in 1..Len(sts) |-> sts[Len(sts) + 1 - k]]

\* asyncio.gather(*[...]): the tasks' results in the order the tasks were
\* passed, whatever order they finished in (lines 177-179)
GatherResults(sts) == [k \in 1..Len(sts) |-> sts[k]]

\* variant: every item that was processed counts as a success
SuccessfulNotPending(rs) == SelectSeq(rs, LAMBDA st : st.status # PENDING)

\* variant: a failure is recognised by a non-empty error text
FailedIfError(rs) == SelectSeq(rs, LAMBDA r : r.error # NoneVal /\ r.error # "")

\* lines 182-183
Successful(rs) == SelectSeq(rs, LAMBDA r : r.status = COMPLETED)
Failed(rs) == SelectSeq(rs, LAMBDA r : r.status = FAILED)

\* [s.result for s in successful], line 198
SynthesisInput(succ) == [k \in 1..Len(succ) |-> succ[k].result]

\* r[:n] of a string
Slice(r, n) == IF Len(r) <= n THEN r ELSE SubSeq(r, 1, n)

\* f"## Result {i+1}\n{r[:2000]}", line 243
Section(i, r) == "## Result " \o PyStr(i) \o "\n" \o Slice(r, TruncateAt)

\* sep.join(parts)
RECURSIVE Join(_, _)
Join(sep, parts) ==
    IF parts = << >> THEN ""
    ELSE IF Len(parts) = 1 THEN parts[1]
    ELSE parts[1] \o sep \o Join(sep, Tail(parts))

\* variant: the limit is applied to the combined text, not to each result
CombinedResultsCutWhole(rs) ==
    Slice(Join("\n\n---\n\n",
               [i \in 1..Len(rs) |-> "## Result " \o PyStr(i) \o "\n" \o rs[i]]),
          TruncateAt)

\* combined_results, lines 242-245
CombinedResults(rs) ==
    Join("\n\n---\n\n", [i \in 1..Len(rs) |-> Section(i, rs[i])])

\* r[:2000] at line 243 raises TypeError when r is None
BuildRaises(rs) == \E k \in 1..Len(rs) : rs[k] = NoneVal

\* variant: the content of the reply is never handed back
SynthesisResultNoContent(r) ==
    IF r.exc # "none" THEN "Synthesis failed: " ELSE NoneVal

\* lines 256-279: what _synthesize_results returns for a reply
SynthesisResult(r) ==
    IF r.exc # "none"
    THEN IF r.exc = "ReadTimeout" THEN "Synthesis failed: "
         ELSE "Synthesis failed: All connection attempts failed"
    ELSE IF r.status_code = 200
         THEN IF r.body = "no_choices"
              THEN "Synthesis failed: 'choices'"
              ELSE r.content
         ELSE NoneVal

\* variant: success tells whether every item succeeded
BuildReportSuccessIfClean(its, succ, fail, synthesis, t) ==
    [ success |-> fail = << >>,
      total_items |-> Len(its),
      successful_count |-> Len(succ),
      failed_count |-> Len(fail),
      results |-> [k \in 1..Len(succ) |->
                     [id |-> succ[k].id, item |-> succ[k].item,
                      result |-> succ[k].result,
                      processing_time |-> succ[k].processing_time,
                      status |-> succ[k].status]],
      failures |-> [k \in 1..Len(fail) |->
                     [id |-> fail[k].id, item |-> fail[k].item,
                      error |-> fail[k].error]],
      synthesis |-> synthesis,
      total_processing_time |-> t,
      average_time_per_item |-> IF Len(its) # 0 THEN [num |-> t, den |-> Len(its)]
                                ELSE [num |-> 0, den |-> 1] ]

\* lines 202-228: the dict execute returns
BuildReport(its, succ, fail, synthesis, t) ==
    [ success |-> TRUE,
      total_items |-> Len(its),
      successful_count |-> Len(succ),
      failed_count |-> Len(fail),
      results |-> [k \in 1..Len(succ) |->
                     [id |-> succ[k].id, item |-> succ[k].item,
                      result |-> succ[k].result,
                      processing_time |-> succ[k].processing_time,
                      status |-> succ[k].status]],
      failures |-> [k \in 1..Len(fail) |->
                     [id |-> fail[k].id, item |-> fail[k].item,
                      error |-> fail[k].error]],
      synthesis |-> synthesis,
      total_processing_time |-> t,
      average_time_per_item |-> IF Len(its) # 0 THEN PyDiv(t, Len(its)) ELSE Zero ]

(* ---- asyncio.Semaphore ---- *)

\* variant: the permit count is not consulted
LockedIgnoresValue == Len(sem_waiters) > 0

\* Semaphore.locked(): no permit, or somebody already queued
Locked == sem_value = 0 \/ Len(sem_waiters) > 0

\* positions of the waiters whose future is not done yet
PendingWaiters(w, tp) == {k \in 1..Len(w) : tp[w[k]] = "waiting"}

\* variant: the waiter that queued last is woken first
WakeUpNextLast(s) ==
    LET P == PendingWaiters(s.waiters, s.task_pc)
    IN  IF P = {}
        THEN s
        ELSE LET k == CHOOSE j \in P : \A h \in P : j >= h
                 t == s.waiters[k]
             IN  [s EXCEPT !.value = @ - 1,
                           !.task_pc[t] = "granted",
                           !.ready = Append(@, t)]

\* Semaphore._wake_up_next() on the state s = [value, waiters, task_pc,
\* ready]: the first waiter that is not done gets the permit and its task
\* is scheduled; it stays in the queue until it runs.
WakeUpNext(s) ==
    LET P == PendingWaiters(s.waiters, s.task_pc)
    IN  IF P = {}
        THEN s
        ELSE LET k == CHOOSE j \in P : \A h \in P : j <= h
                 t == s.waiters[k]
             IN  [s EXCEPT !.value = @ - 1,
                           !.task_pc[t] = "granted",
                           !.ready = Append(@, t)]

\* variant: the permit is not given back
ReleaseLeaks(s) == s

\* Semaphore.release()
Release(s) == WakeUpNext([s EXCEPT !.value = @ + 1])

\* sequence without its first occurrence of x
Remove(s, x) ==
    LET k == CHOOSE j \in 1..Len(s) : s[j] = x /\ \A h \in 1..(j-1) : s[h] # x
    IN  SubSeq(s, 1, k-1) \o SubSeq(s, k+1, Len(s))

(* ---- Init ---- *)

\* the submitted lists: payloads are opaque to the engine, so per length
\* one list of equal items and one of alternating items are drawn
ItemLists ==
    UNION { { [k \in 1..n |-> "p"],
              [k \in 1..n |-> IF k % 2 = 1 THEN "p" ELSE "q"] } :
            n \in 0..MaxItems }

Init ==
    /\ max_concurrent \in -1..MaxConcurrent
    /\ items \in ItemLists
    /\ synthesis_prompt \in SynthesisPrompts
    /\ progress_callback \in Callbacks
    /\ pc = "request"
    /\ raised = NoneVal
    /\ sem_value = 0
    /\ sem_waiters = << >>
    /\ ready = << >>
    /\ subtasks = << >>
    /\ task_pc = << >>
    /\ calls = << >>
    /\ reply = << >>
    /\ first_done = 0
    /\ completed = 0
    /\ cb_log = << >>
    /\ cb_seen = << >>
    /\ results = << >>
    /\ processing_time = 0
    /\ synth_calls = << >>
    /\ synth_reply = NoReply
    /\ combined = NoneVal
    /\ runs = 0
    /\ run_b = NoneVal
    /\ travel = NoneVal
    /\ report = NoReport

(* ---- actions ---- *)

\* main.py line 1543 / wide_research.py lines 55-64: WideResearch(...)
\* builds asyncio.Semaphore(max_concurrent), which raises ValueError on a
\* negative value (and accepts 0); the handler turns it into a 500.
Construct ==
    /\ pc = "request"
    /\ IF max_concurrent < 0
       THEN /\ pc' = "raised"
            /\ raised' = "ValueError"
            /\ UNCHANGED sem_value
       ELSE /\ pc' = "constructed"
            /\ sem_value' = max_concurrent
            /\ UNCHANGED raised
    /\ UNCHANGED << inputs, elsewhere, sem_waiters, ready, subtasks, task_pc,
                    calls, reply, first_done, completed, cb_log, cb_seen,
                    results, processing_time, synth_calls, synth_reply,
                    combined, runs, report >>

\* execute, lines 148-179 up to the await of gather: the subtasks are
\* created, completed = 0, and gather schedules one task per subtask, in
\* submission order.
ExecuteStart ==
    /\ pc = "constructed"
    /\ subtasks' = [i \in Ids |-> SubTask(i, items[i])]
    /\ task_pc' = [i \in Ids |-> "created"]
    /\ calls' = [i \in Ids |-> 0]
    /\ reply' = [i \in Ids |-> NoReply]
    /\ completed' = 0
    /\ ready' = [i \in Ids |-> i]
    /\ pc' = "gather"
    /\ runs' = runs + 1
    /\ UNCHANGED << inputs, elsewhere, raised, sem_value, sem_waiters,
                    first_done, cb_log, cb_seen, results, processing_time,
                    synth_calls, synth_reply, combined, report >>

\* first step of a task: process_with_progress -> process_single_item ->
\* `async with self.semaphore` (Semaphore.acquire): take a permit if the
\* semaphore is not locked and go on to line 78-110 (status PROCESSING,
\* the post is issued and awaited); otherwise queue up and suspend.
StartTask(i) ==
    /\ ready # << >> /\ Head(ready) = i
    /\ task_pc[i] = "created"
    /\ ready' = Tail(ready)
    /\ IF ~Locked
       THEN /\ sem_value' = sem_value - 1
            /\ subtasks' = [subtasks EXCEPT ![i].status = PROCESSING]
            /\ calls' = [calls EXCEPT ![i] = @ + 1]
            /\ task_pc' = [task_pc EXCEPT ![i] = "inflight"]
            /\ UNCHANGED sem_waiters
       ELSE /\ sem_waiters' = Append(sem_waiters, i)
            /\ task_pc' = [task_pc EXCEPT ![i] = "waiting"]
            /\ UNCHANGED << sem_value, subtasks, calls >>
    /\ UNCHANGED << inputs, elsewhere, pc, raised, reply, first_done,
                    completed, cb_log, cb_seen, results, processing_time,
                    synth_calls, synth_reply, combined, runs, report >>

\* a woken waiter resumes in Semaphore.acquire: it leaves the queue, passes
\* a spare permit on if there is one, and enters the protected section
\* (lines 78-110).
ResumeTask(i) ==
    /\ ready # << >> /\ Head(ready) = i
    /\ task_pc[i] = "granted"
    /\ LET s0 == [value |-> sem_value,
                  waiters |-> Remove(sem_waiters, i),
                  task_pc |-> [task_pc EXCEPT ![i] = "inflight"],
                  ready |-> Tail(ready)]
           s1 == IF s0.value > 0 THEN WakeUpNext(s0) ELSE s0
       IN  /\ sem_value' = s1.value
           /\ sem_waiters' = s1.waiters
           /\ task_pc' = s1.task_pc
           /\ ready' = s1.ready
    /\ subtasks' = [subtasks EXCEPT ![i].status = PROCESSING]
    /\ calls' = [calls EXCEPT ![i] = @ + 1]
    /\ UNCHANGED << inputs, elsewhere, pc, raised, reply, first_done,
                    completed, cb_log, cb_seen, results, processing_time,
                    synth_calls, synth_reply, combined, runs, report >>

\* whether the permit item i took is still out in the semaphore state s:
\* the permits available and those of the other tasks do not add up to k
PermitOut(i, s, k) ==
    s.value + Cardinality({j \in DOMAIN s.task_pc \ {i} :
                              s.task_pc[j] \in {"inflight", "granted"}}) < k

\* what holds when progress_callback is called for item i
Seen(i, s, sts, k) ==
    [ holds_permit |-> PermitOut(i, s, k),
      terminal |-> Cardinality({j \in DOMAIN sts :
                                   sts[j].status \in {COMPLETED, FAILED}}) ]

\* variant: the callback is called inside the protected section
CallbackSeesBefore(before, after) == before

\* the semaphore as the callback finds it: line 169 awaits
\* process_single_item to its end, `async with` included, before lines
\* 170-172 run
CallbackSees(before, after) == after

\* the post of item i ends with reply r and the task runs to its end
\* without another await: lines 112-125 set the outcome, the semaphore is
\* released on leaving `async with`, and process_with_progress (lines
\* 170-174) counts the completion and calls the progress callback.
Complete(i, r) ==
    /\ i \in DOMAIN task_pc
    /\ task_pc[i] = "inflight"
    /\ subtasks' = [subtasks EXCEPT ![i] = Timed(ApplyReply(@, r))]
    /\ reply' = [reply EXCEPT ![i] = r]
    /\ first_done' = IF first_done = 0 THEN i ELSE first_done
    /\ completed' = Increment(completed)
    /\ LET ended == IF progress_callback = "raises" THEN "raised" ELSE "done"
           s0 == [value |-> sem_value, waiters |-> sem_waiters,
                  task_pc |-> [task_pc EXCEPT ![i] = ended],
                  ready |-> ready]
           s1 == Release(s0)
       IN  /\ sem_value' = s1.value
           /\ sem_waiters' = s1.waiters
           /\ task_pc' = s1.task_pc
           /\ ready' = s1.ready
           /\ IF progress_callback # "none"
              THEN /\ cb_log' =
                         Append(cb_log, CallbackArgs(completed', subtasks))
                   /\ cb_seen' =
                         Append(cb_seen,
                                Seen(i, CallbackSees(s0, s1), subtasks',
                                     max_concurrent))
              ELSE UNCHANGED << cb_log, cb_seen >>
    /\ UNCHANGED << inputs, elsewhere, pc, raised, calls, results,
                    processing_time, synth_calls, synth_reply, combined, runs,
                    report >>

\* variant: the exception of one task cancels its siblings
GatherRaiseCancels ==
    /\ pc = "gather"
    /\ \E i \in Ids : task_pc[i] = "raised"
    /\ pc' = "raised"
    /\ raised' = "CallbackError"
    /\ task_pc' = [i \in Ids |-> IF task_pc[i] \in {"done", "raised"}
                                 THEN task_pc[i] ELSE "cancelled"]
    /\ sem_waiters' = << >>
    /\ ready' = << >>
    /\ sem_value' = max_concurrent
    /\ UNCHANGED << inputs, elsewhere, subtasks, calls, reply, first_done,
                    completed, cb_log, cb_seen, results, processing_time,
                    synth_calls, synth_reply, combined, runs, report >>

\* a task raised (the progress callback did): gather passes the exception
\* on to execute, which raises it; the sibling tasks are not cancelled.
GatherRaise ==
    /\ pc = "gather"
    /\ \E i \in Ids : task_pc[i] = "raised"
    /\ pc' = "raised"
    /\ raised' = "CallbackError"
    /\ UNCHANGED << inputs, elsewhere, sem_value, sem_waiters, ready,
                    subtasks, task_pc, calls, reply, first_done, completed,
                    cb_log, cb_seen, results, processing_time, synth_calls,
                    synth_reply, combined, runs, report >>

\* variant: execute goes on as soon as one task returned
AnyTaskDone == \E i \in Ids : task_pc[i] = "done"

\* `await asyncio.gather(...)`, lines 177-179: every task has returned
AllTasksDone == \A i \in Ids : task_pc[i] = "done"

\* variant: the synthesizer is called whenever an instruction was given
ShouldSynthesizeAlways(prompt, succ) == Truthy(prompt)

\* `if synthesis_prompt and successful`, line 195
ShouldSynthesize(prompt, succ) == Truthy(prompt) /\ succ # << >>

\* every task returned: gather returns and execute runs lines 181-200,
\* either to the await of the synthesis call, to its return (lines
\* 202-228), or to an exception (the division of line 191, the slicing of
\* line 243).
GatherReturn ==
    /\ pc = "gather"
    /\ AllTasksDone
    /\ results' = GatherResults(subtasks)
    /\ \E t \in 0..MaxElapsed : processing_time' = t
    /\ LET succ == Successful(results')
           fail == Failed(results')
       IN  IF DivRaises(PyDiv(processing_time', Len(items)))
           THEN /\ pc' = "raised"
                /\ raised' = "ZeroDivisionError"
                /\ UNCHANGED << synth_calls, combined, report >>
           ELSE IF ShouldSynthesize(synthesis_prompt, succ)
                THEN /\ synth_calls' =
                           Append(synth_calls, SynthesisInput(succ))
                     /\ IF BuildRaises(SynthesisInput(succ))
                        THEN /\ pc' = "raised"
                             /\ raised' = "TypeError"
                             /\ UNCHANGED combined
                        ELSE /\ pc' = "synth"
                             /\ combined' =
                                   CombinedResults(SynthesisInput(succ))
                             /\ UNCHANGED raised
                     /\ UNCHANGED report
                ELSE /\ pc' = "returned"
                     /\ report' = BuildReport(items, succ, fail, NoneVal,
                                              processing_time')
                     /\ UNCHANGED << raised, synth_calls, combined >>
    /\ UNCHANGED << inputs, elsewhere, sem_value, sem_waiters, ready,
                    subtasks, task_pc, calls, reply, first_done, completed,
                    cb_log, cb_seen, synth_reply, runs >>

\* the synthesis call ends with reply r: _synthesize_results returns and
\* execute builds and returns the report (lines 202-228).
SynthRespond(r) ==
    /\ pc = "synth"
    /\ pc' = "returned"
    /\ synth_reply' = r
    /\ report' = BuildReport(items, Successful(results), Failed(results),
                             SynthesisResult(r), processing_time)
    /\ UNCHANGED << inputs, elsewhere, raised, sem_value, sem_waiters, ready,
                    subtasks, task_pc, calls, reply, first_done, completed,
                    cb_log, cb_seen, results, processing_time, synth_calls,
                    combined, runs >>

Next ==
    \/ Construct
    \/ ExecuteStart
    \/ \E i \in 1..MaxItems + 1 : StartTask(i)
    \/ \E i \in 1..MaxItems + 1 : ResumeTask(i)
    \/ \E i \in 1..MaxItems + 1 : \E r \in Responses : Complete(i, r)
    \/ GatherRaise
    \/ GatherReturn
    \/ \E r \in Responses : SynthRespond(r)

Spec == Init /\ [][Next]_vars

\* every processor call ends (the client's timeout), every ready task is
\* run by the event loop, and every awaiting coroutine is resumed
FairSpec ==
    /\ Spec
    /\ WF_vars(Construct)
    /\ WF_vars(ExecuteStart)
    /\ WF_vars(\E i \in 1..MaxItems + 1 : StartTask(i))
    /\ WF_vars(\E i \in 1..MaxItems + 1 : ResumeTask(i))
    /\ \A i \in 1..MaxItems + 1 : WF_vars(\E r \in Responses : Complete(i, r))
    /\ WF_vars(GatherRaise)
    /\ WF_vars(GatherReturn)
    /\ WF_vars(\E r \in Responses : SynthRespond(r))

(* ---- vocabulary of the properties ---- *)

Tasks == DOMAIN task_pc
InSection == {i \in Tasks : task_pc[i] = "inflight"}
Ended == {i \in Tasks : task_pc[i] \in {"done", "raised"}}
Terminal(i) == subtasks[i].status \in {COMPLETED, FAILED}
GoodReply(r) == r.exc = "none" /\ r.status_code = 200 /\ r.body = "content"
ExecuteEnded == pc = "returned" \/ (pc = "raised" /\ raised # "ValueError")

(* ---- C1 ---- *)

\* C1: with max_concurrent = K >= 1, in every reachable state at most K
\* items are inside the protected section of process_single_item (permit
\* held, processor call in flight).
C1_BoundedInFlight ==
    max_concurrent >= 1 => Cardinality(InSection) <= max_concurrent

\* the budget is used up while another item waits for a permit
C1_Witness ==
    /\ max_concurrent >= 1
    /\ Cardinality(InSection) = max_concurrent
    /\ \E i \in Tasks : task_pc[i] = "waiting"

(* ---- C3 ---- *)

StatusStep(a, b) ==
    \/ a = b
    \/ a = PENDING /\ b = PROCESSING
    \/ a = PROCESSING /\ b \in {COMPLETED, FAILED}

\* C3: within one run the processor is called at most once per item and
\* exactly once for an item that left PENDING or whose task ended (no
\* retry); a status only moves PENDING -> PROCESSING -> COMPLETED or FAILED
\* and a terminal status never changes again.
C3_OnceAndMonotone ==
    /\ [](\A i \in Tasks :
            /\ calls[i] <= 1
            /\ (subtasks[i].status # PENDING <=> calls[i] = 1)
            /\ (i \in Ended => calls[i] = 1 /\ Terminal(i)))
    /\ [][\A i \in Tasks :
            StatusStep(subtasks[i].status, subtasks'[i].status)]_vars

\* a failed item stays failed with one call while a sibling is processed
C3_Witness ==
    \E i, j \in Tasks :
        /\ subtasks[i].status = FAILED /\ calls[i] = 1
        /\ subtasks[j].status = COMPLETED /\ calls[j] = 1

(* ---- C4 ---- *)

IdsOf(list) == {list[k].id : k \in 1..Len(list)}

\* C4: in every report execute returns, successful_count + failed_count =
\* total_items, len(results) + len(failures) = number of submitted items,
\* and every item is in exactly one of the two lists.
C4_ReportPartition ==
    pc = "returned" =>
        /\ report.successful_count + report.failed_count = report.total_items
        /\ Len(report.results) + Len(report.failures) = Len(items)
        /\ \A i \in Ids :
              (PyStr(i) \in IdsOf(report.results))
                  # (PyStr(i) \in IdsOf(report.failures))

\* a report with both a success and a failure, one of them a timeout
C4_Witness ==
    /\ pc = "returned"
    /\ Len(report.results) >= 1
    /\ \E k \in 1..Len(report.failures) : report.failures[k].error = ""

(* ---- C6 ---- *)

\* C6: when some item's processor call failed, every other item is still
\* processed and gets the status of its own call alone: an ended item is
\* COMPLETED exactly when its own reply was a 200 with content and FAILED
\* otherwise; an item that has not ended is not abandoned (its call is in
\* flight, or its task is ready, or it waits for a permit that an in-flight
\* call or a ready task holds); and, the processor calls ending, every item
\* eventually ends with COMPLETED or FAILED.
C6_SiblingsUnaffected ==
    /\ []((\E i \in Tasks : subtasks[i].status = FAILED) =>
            \A j \in Tasks :
                /\ j \in Ended =>
                      subtasks[j].status =
                          IF GoodReply(reply[j]) THEN COMPLETED ELSE FAILED
                /\ j \notin Ended =>
                      /\ task_pc[j] \in
                            {"created", "waiting", "granted", "inflight"}
                      /\ InSection # {} \/ ready # << >>)
    /\ (\E i \in Tasks : subtasks[i].status = FAILED)
           ~> (\A j \in Tasks : j \in Ended /\ Terminal(j))

\* after a failure, a sibling completed and another is still in flight
C6_Witness ==
    \E i, j \in Tasks :
        /\ subtasks[i].status = FAILED
        /\ first_done = i /\ i > j
        /\ subtasks[j].status = COMPLETED
        /\ \A k \in Tasks : Terminal(k)

(* ---- C8 ---- *)

\* C8: with a progress callback, the k-th invocation gets (k, N): the first
\* argument runs 1, 2, ... without repetition, the second is always N, there
\* is one invocation per ended item, hence exactly N once all items ended.
C8_ProgressCounts ==
    progress_callback # "none" =>
        /\ \A k \in 1..Len(cb_log) : cb_log[k] = << k, Len(items) >>
        /\ Len(cb_log) = Cardinality(Ended)
        /\ (pc \in {"synth", "returned"} => Len(cb_log) = Len(items))

\* a returned run of at least two items, one failed, with all N callbacks
C8_Witness ==
    /\ progress_callback = "ok"
    /\ pc = "returned"
    /\ Len(items) >= 2
    /\ Len(cb_log) = Len(items)
    /\ \E i \in Tasks : subtasks[i].status = FAILED

(* ---- C2 ---- *)

\* C2: for N >= 1 items and max_concurrent >= 1 (and a progress callback
\* that does not raise), if every processor call eventually ends then every
\* item eventually reaches COMPLETED or FAILED and execute eventually
\* returns.
C2_EventuallyReturns ==
    (Len(items) >= 1 /\ max_concurrent >= 1 /\ progress_callback # "raises")
        ~> (pc = "returned" /\ \A i \in Tasks : Terminal(i))

(* ---- C5 ---- *)

\* C5: for all N >= 0 items and max_concurrent >= 1 (and a progress callback
\* that does not raise), once execute has ended it has returned, and the
\* outcome list has length N with the k-th outcome that of the k-th item.
C5_OrderedOutcomes ==
    (ExecuteEnded /\ max_concurrent >= 1 /\ progress_callback # "raises") =>
        /\ pc = "returned"
        /\ Len(results) = Len(items)
        /\ \A k \in 1..Len(results) :
              results[k].id = PyStr(k) /\ results[k].item = items[k]

(* ---- C7 ---- *)

\* C7: whatever the items' processor calls produce (N >= 1, the progress
\* callback does not raise), execute does not fail: once it has ended it
\* has returned a report holding the successes and the failures.
C7_NoRunFailure ==
    (ExecuteEnded /\ Len(items) >= 1 /\ progress_callback # "raises") =>
        /\ pc = "returned"
        /\ Len(report.results) = Cardinality({i \in Ids : GoodReply(reply[i])})
        /\ Len(report.failures) = Cardinality({i \in Ids : ~GoodReply(reply[i])})

(* ---- C9 ---- *)

\* C9: execute called with 0 items makes no processor call and returns a
\* report with total_items = 0, empty results, empty failures and
\* average_time_per_item = 0.
C9_EmptyRunReturns ==
    (ExecuteEnded /\ Len(items) = 0) =>
        /\ pc = "returned"
        /\ report.total_items = 0
        /\ report.results = << >>
        /\ report.failures = << >>
        /\ report.average_time_per_item = Zero

(* ---- C10 ---- *)

\* C10: a run configured with max_concurrent < 1 fails before any
\* scheduling begins: no task is ever scheduled or queued for a permit, no
\* item leaves PENDING and no processor call is made.
C10_RejectsBadLimit ==
    max_concurrent < 1 =>
        /\ ready = << >>
        /\ sem_waiters = << >>
        /\ \A i \in Tasks : subtasks[i].status = PENDING /\ calls[i] = 0

(* ---- C11 ---- *)

CompletedIds == {i \in Ids : subtasks[i].status = COMPLETED}
PromptSupplied == synthesis_prompt \notin {NoneVal, ""}
AfterGather ==
    pc \in {"synth", "returned"} \/ (pc = "raised" /\ raised = "TypeError")

\* C11: _synthesize_results is called if and only if a combining
\* instruction was supplied and at least one item succeeded; with no
\* instruction, or with every item failed, it is never called and the
\* report's synthesis is None.
C11_SynthesisGate ==
    /\ synth_calls # << >> => (PromptSupplied /\ CompletedIds # {})
    /\ AfterGather =>
          ((PromptSupplied /\ CompletedIds # {}) => Len(synth_calls) = 1)
    /\ (pc = "returned" /\ ~(PromptSupplied /\ CompletedIds # {})) =>
          (synth_calls = << >> /\ report.synthesis = NoneVal)

\* an instruction was supplied, every item failed, the report has no
\* synthesis
C11_Witness ==
    /\ pc = "returned"
    /\ synthesis_prompt = "combine"
    /\ Len(items) = 2
    /\ \A i \in Ids : subtasks[i].status = FAILED
    /\ synth_calls = << >>
    /\ report.synthesis = NoneVal

(* ---- C12 ---- *)

KthCompleted(k) ==
    CHOOSE i \in CompletedIds : Cardinality({j \in CompletedIds : j <= i}) = k

\* C12: the input of a _synthesize_results call is exactly the results of
\* the COMPLETED items in submission order, one entry per successful item,
\* and nothing of a failed item.
C12_SynthesisInputIsSuccesses ==
    \A c \in 1..Len(synth_calls) :
        /\ Len(synth_calls[c]) = Cardinality(CompletedIds)
        /\ \A k \in 1..Len(synth_calls[c]) :
              synth_calls[c][k] = subtasks[KthCompleted(k)].result

\* two different results, the second item done first, passed in item order
C12_Witness ==
    /\ synth_calls = << << "", "text" >> >>
    /\ first_done = 2

(* ---- C13 ---- *)

\* C13: however the synthesis step fails (exception, timeout, non-200
\* reply, or a failure while the combined input is built), execute still
\* returns a report whose results and failures are those of the items;
\* only synthesis is None or a failure marker.
C13_SynthesisFailureContained ==
    (ExecuteEnded /\ synth_calls # << >>) =>
        /\ pc = "returned"
        /\ IdsOf(report.results) = {PyStr(i) : i \in CompletedIds}
        /\ IdsOf(report.failures) = {PyStr(i) : i \in Ids \ CompletedIds}
        /\ ~GoodReply(synth_reply) =>
              \/ report.synthesis = NoneVal
              \/ report.synthesis \in
                    {"Synthesis failed: ", "Synthesis failed: 'choices'",
                     "Synthesis failed: All connection attempts failed"}

(* ---- cancellation, and reuse of one WideResearch instance ---- *)

\* what Task.cancel() makes of a child task of gather
CancelMark(tp) ==
    CASE tp = "created"  -> "cancel_created"
      [] tp = "waiting"  -> "cancel_waiting"
      [] tp = "granted"  -> "cancel_granted"
      [] tp = "inflight" -> "cancel_inflight"
      [] OTHER           -> tp

\* the task that runs execute is cancelled while it awaits gather (lines
\* 177-179): gather cancels every child that is not done, in submission
\* order.  The future of a queued waiter becomes cancelled, which locked()
\* and _wake_up_next() skip from then on; the tasks that were suspended
\* are scheduled to take their CancelledError.
CancelRun ==
    /\ pc = "gather"
    /\ pc' = "cancelling"
    /\ task_pc' = [i \in Ids |-> CancelMark(task_pc[i])]
    /\ sem_waiters' = SelectSeq(sem_waiters, LAMBDA t : task_pc[t] # "waiting")
    /\ ready' = ready \o SelectSeq([i \in Ids |-> i],
                           LAMBDA t : task_pc[t] \in {"waiting", "inflight"})
    /\ UNCHANGED << inputs, elsewhere, raised, sem_value, subtasks, calls,
                    reply, first_done, completed, cb_log, cb_seen, results,
                    processing_time, synth_calls, synth_reply, combined, runs,
                    report >>

\* variant: a waiter cancelled after it was handed the permit keeps it
AcquireCancelledKeepsPermit(s, i) == [s EXCEPT !.waiters = Remove(@, i)]

\* Semaphore.acquire() taking CancelledError after its future was given a
\* permit: it leaves the queue, adds the permit back and wakes the next
AcquireCancelled(s, i) ==
    LET s0 == [s EXCEPT !.waiters = Remove(@, i)]
        s1 == [s0 EXCEPT !.value = @ + 1]
        P  == PendingWaiters(s1.waiters, s1.task_pc)
    IN  IF P = {}
        THEN s1
        ELSE LET k == CHOOSE j \in P : \A h \in P : j <= h
                 t == s1.waiters[k]
             IN  [s1 EXCEPT !.value = @ - 1,
                            !.task_pc[t] = "granted",
                            !.ready = Append(@, t)]

\* a cancelled task runs and CancelledError travels up its coroutine: at
\* its first step nothing was entered; in acquire the queue entry is
\* dropped; at the await of the post (line 98) `except Exception` does not
\* catch it and leaving `async with` (line 77) releases the permit.  The
\* status stays as it was and neither the counter nor the callback runs.
CancelledStep(i) ==
    /\ ready # << >> /\ Head(ready) = i
    /\ task_pc[i] \in {"cancel_created", "cancel_waiting", "cancel_granted",
                       "cancel_inflight"}
    /\ LET s0 == [value |-> sem_value, waiters |-> sem_waiters,
                  task_pc |-> [task_pc EXCEPT ![i] = "cancelled"],
                  ready |-> Tail(ready)]
           s1 == CASE task_pc[i] = "cancel_inflight" -> Release(s0)
                   [] task_pc[i] = "cancel_granted" -> AcquireCancelled(s0, i)
                   [] OTHER -> s0
       IN  /\ sem_value' = s1.value
           /\ sem_waiters' = s1.waiters
           /\ task_pc' = s1.task_pc
           /\ ready' = s1.ready
    /\ UNCHANGED << inputs, elsewhere, pc, raised, subtasks, calls, reply,
                    first_done, completed, cb_log, cb_seen, results,
                    processing_time, synth_calls, synth_reply, combined, runs,
                    report >>

\* every child is done or cancelled: gather and execute raise
\* CancelledError
GatherCancelled ==
    /\ pc = "cancelling"
    /\ \A i \in Ids : task_pc[i] \in {"done", "raised", "cancelled"}
    /\ pc' = "raised"
    /\ raised' = "CancelledError"
    /\ UNCHANGED << inputs, elsewhere, sem_value, sem_waiters, ready,
                    subtasks, task_pc, calls, reply, first_done, completed,
                    cb_log, cb_seen, results, processing_time, synth_calls,
                    synth_reply, combined, runs, report >>

\* execute has ended, one way or the other, and all its tasks have: the
\* caller calls execute again on the same instance, as
\* travel_wide_research does with `wr`.  The semaphore is the one made by
\* __init__; everything else belongs to the run.
Rerun ==
    /\ pc = "returned" \/ (pc = "raised" /\ raised # "ValueError")
    /\ \A i \in Ids : task_pc[i] \in {"done", "raised", "cancelled"}
    /\ runs < MaxRuns
    /\ pc' = "constructed"
    /\ raised' = NoneVal
    /\ subtasks' = << >>
    /\ task_pc' = << >>
    /\ calls' = << >>
    /\ reply' = << >>
    /\ first_done' = 0
    /\ completed' = 0
    /\ cb_log' = << >>
    /\ cb_seen' = << >>
    /\ results' = << >>
    /\ processing_time' = 0
    /\ synth_calls' = << >>
    /\ synth_reply' = NoReply
    /\ combined' = NoneVal
    /\ report' = NoReport
    /\ UNCHANGED << inputs, elsewhere, sem_value, sem_waiters, ready, runs >>

ReuseNext ==
    \/ Next
    \/ CancelRun
    \/ \E i \in 1..MaxItems + 1 : CancelledStep(i)
    \/ GatherCancelled
    \/ Rerun

ReuseSpec == Init /\ [][ReuseNext]_vars

(* ---- C14 ---- *)

PermitHolders ==
    {i \in Tasks : task_pc[i] \in {"inflight", "granted", "cancel_inflight",
                                   "cancel_granted"}}

\* C14: no permit is ever leaked, whichever way a task leaves the
\* protected section (success, non-200, caught exception, cancellation):
\* the available count plus the permits held is max_concurrent, so with no
\* item in flight the count is max_concurrent, in every run made on the
\* instance.
C14_NoPermitLeak ==
    (pc # "request" /\ max_concurrent >= 0) =>
        /\ sem_value + Cardinality(PermitHolders) = max_concurrent
        /\ PermitHolders = {} => sem_value = max_concurrent

\* the second run on the instance was cancelled with a call in flight and
\* another item still waiting for a permit; all permits are back
C14_Witness ==
    /\ runs = 2
    /\ pc = "raised" /\ raised = "CancelledError"
    /\ \E i \in Tasks : task_pc[i] = "cancelled"
                          /\ subtasks[i].status = PROCESSING
    /\ \E i \in Tasks : task_pc[i] = "cancelled"
                          /\ subtasks[i].status = PENDING
    /\ max_concurrent = 1
    /\ sem_value = max_concurrent

(* ---- C15 ---- *)

IdNum(id) == CHOOSE i \in 1..MaxItems + 1 : PyStr(i) = id
Ascending(list) ==
    \A k, l \in 1..Len(list) : k < l => IdNum(list[k].id) < IdNum(list[l].id)

\* C15: whichever items succeed and whichever fail, the results list of the
\* report holds exactly the items whose processor call succeeded and the
\* failures list exactly those whose call failed, each in the order of the
\* item ids, whatever order the calls completed in.
C15_ListsMatchOutcomes ==
    pc = "returned" =>
        /\ IdsOf(report.results) =
              {PyStr(i) : i \in {j \in Ids : GoodReply(reply[j])}}
        /\ IdsOf(report.failures) =
              {PyStr(i) : i \in {j \in Ids : ~GoodReply(reply[j])}}
        /\ Ascending(report.results)
        /\ Ascending(report.failures)

\* two failures listed in item order although the second item failed first
C15_Witness ==
    /\ pc = "returned"
    /\ first_done = 2
    /\ Len(report.failures) = 2
    /\ report.failures[1].id = "1" /\ report.failures[2].id = "2"
    /\ report.failures[1].error # report.failures[2].error

(* ---- C16 ---- *)

AllSucceeded == Len(items) >= 1 /\ \A i \in Ids : subtasks[i].status = COMPLETED
FailureMarkers ==
    {"Synthesis failed: ", "Synthesis failed: 'choices'",
     "Synthesis failed: All connection attempts failed"}

\* C16 as stated: when all items succeed and a combining instruction is
\* supplied, the synthesis of the report is a non-empty string.
C16_SynthesisNonEmpty ==
    (pc = "returned" /\ AllSucceeded /\ PromptSupplied) =>
        report.synthesis \notin {NoneVal, ""}

\* C16: when all items succeed and a combining instruction is supplied, the
\* synthesizer is called once with all the results in item order, and the
\* synthesis of a report execute returns is the content of the synthesis
\* reply if that reply is a 200 with a content, None or a failure marker
\* otherwise.
C16_SynthesisIsReplyContent ==
    (AfterGather /\ AllSucceeded /\ PromptSupplied) =>
        /\ synth_calls = << [i \in Ids |-> subtasks[i].result] >>
        /\ pc = "returned" =>
              IF GoodReply(synth_reply)
              THEN report.synthesis = synth_reply.content
              ELSE report.synthesis \in FailureMarkers \cup {NoneVal}

\* both items succeeded and the synthesis reply's text is in the report
C16_Witness ==
    /\ pc = "returned"
    /\ Len(items) = 2
    /\ AllSucceeded
    /\ Len(synth_calls) = 1 /\ Len(synth_calls[1]) = 2
    /\ report.synthesis = "text"

(* ---- C17 ---- *)

\* C17: the synthesizer is called, and the report is built and returned,
\* only after every item has reached COMPLETED or FAILED and its task has
\* ended, and the synthesizer is called at most once in a run.
C17_SynthesisAfterAllTerminal ==
    /\ (pc \in {"synth", "returned"} \/ synth_calls # << >>) =>
          \A i \in Ids : Terminal(i) /\ task_pc[i] = "done"
    /\ Len(synth_calls) <= 1

\* the synthesizer is at work on a run of two items, one of which failed
C17_Witness ==
    /\ pc = "synth"
    /\ Len(items) = 2
    /\ first_done = 2
    /\ \E i \in Ids : subtasks[i].status = FAILED
    /\ Len(synth_calls) = 1

(* ---- C18 ---- *)

\* C18: every COMPLETED item carries a string result, so the synthesizer
\* is never handed None.
C18_SuccessCarriesString ==
    /\ \A i \in Tasks :
          subtasks[i].status = COMPLETED => subtasks[i].result # NoneVal
    /\ \A c \in 1..Len(synth_calls) :
          \A k \in 1..Len(synth_calls[c]) : synth_calls[c][k] # NoneVal

(* ---- C19 ---- *)

\* C19: a processor call that times out, raises a transport exception,
\* answers with a non-200 status or answers 200 without the
\* choices/message/content structure leaves its item FAILED with the error
\* set ('API error: <status>' for a non-200) and no result, and does not
\* make the run fail: a run whose calls all failed returns its report.
C19_FailuresRecorded ==
    /\ \A i \in Tasks :
          (task_pc[i] \in {"done", "raised"} /\ ~GoodReply(reply[i])) =>
              /\ subtasks[i].status = FAILED
              /\ subtasks[i].error # NoneVal
              /\ subtasks[i].result = NoneVal
              /\ (reply[i].exc = "none" /\ reply[i].status_code = 500) =>
                    subtasks[i].error = "API error: 500"
    /\ ( /\ ExecuteEnded
         /\ Len(items) >= 1
         /\ progress_callback # "raises"
         /\ \A i \in Ids : task_pc[i] = "done" /\ ~GoodReply(reply[i]) ) =>
            /\ pc = "returned"
            /\ report.failed_count = Len(items)

\* a returned report after a timeout and a 200 reply without choices
C19_Witness ==
    /\ pc = "returned"
    /\ Len(items) = 2
    /\ reply[1].exc = "ReadTimeout"
    /\ reply[2].body = "no_choices"
    /\ \A i \in Ids : subtasks[i].status = FAILED

(* ---- runs with more items than permits ---- *)

\* one more item than the other runs have, a limit of at least 1, no
\* combining instruction and no progress callback
QueueInit ==
    /\ max_concurrent \in 1..MaxConcurrent
    /\ items = [k \in 1..MaxItems + 1 |-> "p"]
    /\ synthesis_prompt = NoneVal
    /\ progress_callback = "none"
    /\ pc = "request"
    /\ raised = NoneVal
    /\ sem_value = 0
    /\ sem_waiters = << >>
    /\ ready = << >>
    /\ subtasks = << >>
    /\ task_pc = << >>
    /\ calls = << >>
    /\ reply = << >>
    /\ first_done = 0
    /\ completed = 0
    /\ cb_log = << >>
    /\ cb_seen = << >>
    /\ results = << >>
    /\ processing_time = 0
    /\ synth_calls = << >>
    /\ synth_reply = NoReply
    /\ combined = NoneVal
    /\ runs = 0
    /\ run_b = NoneVal
    /\ travel = NoneVal
    /\ report = NoReport

QueueNext ==
    \/ Construct
    \/ ExecuteStart
    \/ \E i \in 1..MaxItems + 1 : StartTask(i)
    \/ \E i \in 1..MaxItems + 1 : ResumeTask(i)
    \/ \E i \in 1..MaxItems + 1 : \E r \in Responses : Complete(i, r)
    \/ GatherReturn

QueueSpec == QueueInit /\ [][QueueNext]_vars

(* ---- C20 ---- *)

Pos(q, x) == CHOOSE k \in 1..Len(q) : q[k] = x

\* C20: a task that finds no permit is suspended in the semaphore's queue
\* (it is not scheduled again until it is handed a permit); the waiters
\* are handed permits in the order they queued up; and item j starts
\* processing only when every item i < j has started.
C20_FifoStart ==
    /\ [](\A i \in Tasks :
             task_pc[i] = "waiting" =>
                 /\ \E k \in 1..Len(sem_waiters) : sem_waiters[k] = i
                 /\ \A k \in 1..Len(ready) : ready[k] # i
                 /\ subtasks[i].status = PENDING)
    /\ [][\A j \in Tasks :
             /\ (task_pc[j] = "waiting" /\ task_pc'[j] = "granted") =>
                   \A i \in Tasks :
                       task_pc[i] = "waiting" =>
                           Pos(sem_waiters, j) <= Pos(sem_waiters, i)
             /\ (subtasks[j].status = PENDING
                     /\ subtasks'[j].status = PROCESSING) =>
                   \A i \in 1..(j - 1) : subtasks[i].status # PENDING]_vars

\* items 2 and 3 queued behind item 1; item 1 is done, item 2 holds the
\* permit and item 3 is still suspended
C20_Witness ==
    /\ max_concurrent = 1
    /\ Len(task_pc) = 3
    /\ task_pc[1] = "done"
    /\ task_pc[2] = "inflight"
    /\ task_pc[3] = "waiting"
    /\ sem_waiters = << 3 >>

(* ---- C21 ---- *)

Identity(st) == << st.id, st.item, st.instruction >>

\* C21: a step that processes item i changes only item i's status, result,
\* error and processing_time: no step changes two items, the item changed
\* is the one whose task took the step, its new result is the content of
\* its own reply, and no step changes an item's id, payload or
\* instruction, the payload being the one submitted.
C21_FrameEffect ==
    /\ [](\A j \in Tasks :
             subtasks[j].item = items[j]
                 /\ subtasks[j].instruction = Instruction)
    /\ [][\A j \in Tasks :
             /\ Identity(subtasks'[j]) = Identity(subtasks[j])
             /\ subtasks'[j] # subtasks[j] =>
                   /\ task_pc'[j] # task_pc[j]
                   /\ \A i \in Tasks \ {j} : subtasks'[i] = subtasks[i]
                   /\ subtasks'[j].result # subtasks[j].result =>
                         subtasks'[j].result = reply'[j].content]_vars

\* item 1 has its outcome and its duration while item 2, with another
\* payload, is still as it was submitted
C21_Witness ==
    /\ Len(task_pc) = 2
    /\ items[1] # items[2]
    /\ subtasks[1].status = COMPLETED
    /\ subtasks[1].result = "text"
    /\ subtasks[1].processing_time = "elapsed"
    /\ subtasks[2] = SubTask(2, items[2])

(* ---- C22 ---- *)

Min(a, b) == IF a <= b THEN a ELSE b
Header(i) == "## Result " \o PyStr(i) \o "\n"
Kept(r) == Min(Len(r), TruncateAt)

\* where the section of the i-th result starts in the combined text, the
\* sections being 7 characters of separator apart
RECURSIVE Offset(_, _)
Offset(rs, i) ==
    IF i = 1 THEN 0
    ELSE Offset(rs, i - 1) + Len(Header(i - 1)) + Kept(rs[i - 1]) + 7

\* C22: in the combined text the synthesizer builds, the section of each
\* result is its header followed by the first min(len, 2000) characters of
\* that result, whatever the lengths of the other results, and nothing
\* else is in the text; the results in the report are the full results.
C22_TruncatedIndependently ==
    (pc \in {"synth", "returned"} /\ synth_calls # << >>) =>
        LET rs == synth_calls[1]
            n == Len(rs)
        IN  /\ Len(combined) = Offset(rs, n) + Len(Header(n)) + Kept(rs[n])
            /\ \A i \in 1..n :
                  SubSeq(combined, Offset(rs, i) + 1,
                         Offset(rs, i) + Len(Header(i)) + Kept(rs[i]))
                      = Header(i) \o SubSeq(rs[i], 1, Kept(rs[i]))
            /\ pc = "returned" =>
                  \A k \in 1..n :
                      /\ report.results[k].result = rs[k]
                      /\ subtasks[KthCompleted(k)].result = rs[k]

\* a result of 2001 characters next to a short one: the report holds all
\* 2001 characters and the combined text 2000 of them and the short one
C22_Witness ==
    /\ pc = "returned"
    /\ Len(synth_calls) = 1
    /\ Len(report.results) = 2
    /\ report.results[1].result = LongText
    /\ report.results[2].result = "text"
    /\ Len(report.results[1].result) = TruncateAt + 1
    /\ Len(combined) = 12 + TruncateAt + 7 + 12 + 4

(* ---- C23 ---- *)

\* C23: the k-th submitted item has id str(k): the ids of a run are
\* pairwise distinct and in submission order, equal payloads or not, and
\* they are the ids the report lists.
C23_IdsFollowSubmission ==
    /\ \A k \in DOMAIN subtasks : subtasks[k].id = PyStr(k)
    /\ \A k, l \in DOMAIN subtasks :
          k < l => /\ subtasks[k].id # subtasks[l].id
                   /\ IdNum(subtasks[k].id) < IdNum(subtasks[l].id)
    /\ pc = "returned" =>
          IdsOf(report.results) \cup IdsOf(report.failures)
              = {PyStr(k) : k \in 1..Len(items)}

\* two equal payloads came back under the ids "1" and "2"
C23_Witness ==
    /\ pc = "returned"
    /\ Len(items) = 2
    /\ items[1] = items[2]
    /\ subtasks[1].id = "1" /\ subtasks[2].id = "2"
    /\ IdsOf(report.results) = {"1", "2"}

(* ---- C24 ---- *)

\* C24: once process_single_item has returned for an item, the item is
\* COMPLETED or FAILED and has its duration; a FAILED item has an error
\* and no result; a COMPLETED item has no error.
C24_FieldsConsistent ==
    \A i \in Tasks :
        task_pc[i] \in {"done", "raised"} =>
            /\ subtasks[i].status \in {COMPLETED, FAILED}
            /\ subtasks[i].processing_time = "elapsed"
            /\ subtasks[i].status = FAILED =>
                  subtasks[i].error # NoneVal /\ subtasks[i].result = NoneVal
            /\ subtasks[i].status = COMPLETED => subtasks[i].error = NoneVal

\* one item failed on a 500 and one completed, both returned
C24_Witness ==
    /\ Len(task_pc) = 2
    /\ task_pc[1] = "done" /\ task_pc[2] = "done"
    /\ subtasks[1].status = FAILED
    /\ subtasks[1].error = "API error: 500"
    /\ subtasks[2].status = COMPLETED
    /\ subtasks[2].result = "text"

(* ---- C26 ---- *)

\* C26: the progress callback is called for an item only after the item
\* has its terminal status and its permit is back: no call is made while
\* the item's permit is out, and the count a call is given is at most the
\* number of items terminal at that moment; the counter moves only in the
\* step in which an item's task leaves the protected section with its
\* terminal status.
C26_CallbackAfterRelease ==
    /\ [](/\ Len(cb_seen) = Len(cb_log)
          /\ \A k \in 1..Len(cb_seen) :
                /\ ~cb_seen[k].holds_permit
                /\ cb_log[k][1] <= cb_seen[k].terminal)
    /\ [][completed' # completed =>
             \E i \in Tasks :
                 /\ task_pc[i] = "inflight"
                 /\ task_pc'[i] \in {"done", "raised"}
                 /\ subtasks'[i].status \in {COMPLETED, FAILED}
                 /\ completed' <=
                       Cardinality({j \in Tasks : subtasks'[j].status
                                                    \in {COMPLETED, FAILED}})
          ]_vars

\* the callback was called for the first of two items while the second
\* was still holding its permit
C26_Witness ==
    /\ Len(cb_seen) = 1
    /\ Len(task_pc) = 2
    /\ \E i \in Tasks : task_pc[i] = "inflight"
    /\ max_concurrent = 2
    /\ sem_value = 1

(* ---- C27 ---- *)

\* C27: when the progress callback raises for an item, the item keeps the
\* status and error its processor call produced; execute returns no
\* report and ends, if it ends, by raising the callback's exception; and
\* the step in which the exception leaves execute cancels no task: the
\* siblings go on as they were.
C27_CallbackErrorPropagates ==
    /\ [](\A i \in Tasks :
             task_pc[i] = "raised" =>
                 /\ subtasks[i].status =
                       IF GoodReply(reply[i]) THEN COMPLETED ELSE FAILED
                 /\ GoodReply(reply[i]) => subtasks[i].error = NoneVal
                 /\ pc \in {"gather", "raised"}
                 /\ pc = "raised" => raised = "CallbackError")
    /\ [][(pc = "gather" /\ pc' = "raised") =>
             /\ task_pc' = task_pc
             /\ subtasks' = subtasks
             /\ ready' = ready]_vars

\* execute has raised the callback's exception; item 1 is COMPLETED as its
\* reply made it and item 2's call is still in flight
C27_Witness ==
    /\ pc = "raised" /\ raised = "CallbackError"
    /\ Len(task_pc) = 2
    /\ task_pc[1] = "raised"
    /\ subtasks[1].status = COMPLETED
    /\ task_pc[2] = "inflight"
    /\ subtasks[2].status = PROCESSING

(* ---- C28 ---- *)

\* C28: every report execute returns has success = True, whatever the
\* items' outcomes and the outcome of the synthesis.
C28_SuccessAlwaysTrue ==
    pc = "returned" => report.success = TRUE

\* a report with a failed item and a failed synthesis, and success True
C28_Witness ==
    /\ pc = "returned"
    /\ report.success = TRUE
    /\ report.failed_count = 1
    /\ report.successful_count = 1
    /\ report.synthesis \in FailureMarkers

(* ---- two overlapping execute calls on one WideResearch instance ---- *)

\* The first call is the run of the variables above, with its tasks
\* 1..N.  The second call, run_b, is made on the same instance while the
\* first awaits its gather; its tasks are numbered on from N + 1 in
\* subtasks, task_pc, calls and reply, so that both runs' tasks meet in
\* the one semaphore and the one event loop.  Neither call has a
\* combining instruction; both have a progress callback.
OverlapInit ==
    /\ max_concurrent \in 1..MaxConcurrent
    /\ items \in {its \in ItemLists : Len(its) >= 1}
    /\ synthesis_prompt = NoneVal
    /\ progress_callback = "ok"
    /\ pc = "request"
    /\ raised = NoneVal
    /\ sem_value = 0
    /\ sem_waiters = << >>
    /\ ready = << >>
    /\ subtasks = << >>
    /\ task_pc = << >>
    /\ calls = << >>
    /\ reply = << >>
    /\ first_done = 0
    /\ completed = 0
    /\ cb_log = << >>
    /\ cb_seen = << >>
    /\ results = << >>
    /\ processing_time = 0
    /\ synth_calls = << >>
    /\ synth_reply = NoReply
    /\ combined = NoneVal
    /\ runs = 0
    /\ run_b = [ pc |-> "idle", items |-> << "b" >>, completed |-> 0,
                 cb_log |-> << >>, report |-> NoReport ]
    /\ travel = NoneVal
    /\ report = NoReport

\* the tasks of the second call
TasksB == {i \in DOMAIN task_pc : i > N}

\* the local list `subtasks` of a call (lines 156-163)
OwnSubtasks(b) ==
    IF b THEN SubSeq(subtasks, N + 1, Len(subtasks))
    ELSE SubSeq(subtasks, 1, N)

\* variant: one counter on the instance counts for both calls
CounterOfInstance(own, other) == own + other

\* `completed` is a local of the call of execute, bound by `nonlocal` in
\* its own process_with_progress (lines 166-168)
CounterOfCall(own, other) == own

\* the second call of execute, lines 148-179 up to the await of gather
OverlapStartB ==
    /\ pc = "gather"
    /\ run_b.pc = "idle"
    /\ LET M == Len(run_b.items)
       IN  /\ subtasks' = subtasks \o [k \in 1..M |-> SubTask(k, run_b.items[k])]
           /\ task_pc' = task_pc \o [k \in 1..M |-> "created"]
           /\ calls' = calls \o [k \in 1..M |-> 0]
           /\ reply' = reply \o [k \in 1..M |-> NoReply]
           /\ ready' = ready \o [k \in 1..M |-> N + k]
    /\ run_b' = [run_b EXCEPT !.pc = "gather", !.completed = 0]
    /\ runs' = runs + 1
    /\ UNCHANGED << inputs, travel, pc, raised, sem_value, sem_waiters,
                    first_done, completed, cb_log, cb_seen, results,
                    processing_time, synth_calls, synth_reply, combined,
                    report >>

\* Complete for a task of either call: the outcome, the release, and the
\* counter and callback of the call the task belongs to
OverlapComplete(i, r) ==
    /\ i \in DOMAIN task_pc
    /\ task_pc[i] = "inflight"
    /\ subtasks' = [subtasks EXCEPT ![i] = Timed(ApplyReply(@, r))]
    /\ reply' = [reply EXCEPT ![i] = r]
    /\ first_done' = IF first_done = 0 THEN i ELSE first_done
    /\ LET s0 == [value |-> sem_value, waiters |-> sem_waiters,
                  task_pc |-> [task_pc EXCEPT ![i] = "done"],
                  ready |-> ready]
           s1 == Release(s0)
       IN  /\ sem_value' = s1.value
           /\ sem_waiters' = s1.waiters
           /\ task_pc' = s1.task_pc
           /\ ready' = s1.ready
           /\ IF i <= N
              THEN /\ completed' =
                         Increment(CounterOfCall(completed, run_b.completed))
                   /\ cb_log' = Append(cb_log,
                                  CallbackArgs(completed', OwnSubtasks(FALSE)))
                   /\ cb_seen' = Append(cb_seen,
                                   Seen(i, CallbackSees(s0, s1), subtasks',
                                        max_concurrent))
                   /\ UNCHANGED run_b
              ELSE /\ LET c == Increment(CounterOfCall(run_b.completed,
                                                       completed))
                      IN  run_b' =
                            [run_b EXCEPT
                               !.completed = c,
                               !.cb_log = Append(@,
                                   CallbackArgs(c, OwnSubtasks(TRUE)))]
                   /\ UNCHANGED << completed, cb_log, cb_seen >>
    /\ UNCHANGED << inputs, travel, pc, raised, calls, results,
                    processing_time, synth_calls, synth_reply, combined,
                    runs, report >>

\* the first call's gather returns: lines 181-228 without a synthesis
OverlapReturnA ==
    /\ pc = "gather"
    /\ AllTasksDone
    /\ results' = GatherResults(OwnSubtasks(FALSE))
    /\ \E t \in 0..MaxElapsed : processing_time' = t
    /\ pc' = "returned"
    /\ report' = BuildReport(items, Successful(results'), Failed(results'),
                             NoneVal, processing_time')
    /\ UNCHANGED << inputs, elsewhere, raised, sem_value, sem_waiters, ready,
                    subtasks, task_pc, calls, reply, first_done, completed,
                    cb_log, cb_seen, synth_calls, synth_reply, combined,
                    runs >>

\* the second call's gather returns
OverlapReturnB ==
    /\ run_b.pc = "gather"
    /\ \A i \in TasksB : task_pc[i] = "done"
    /\ LET rs == GatherResults(OwnSubtasks(TRUE))
       IN  \E t \in 0..MaxElapsed :
               run_b' = [run_b EXCEPT
                           !.pc = "returned",
                           !.report = BuildReport(run_b.items, Successful(rs),
                                                  Failed(rs), NoneVal, t)]
    /\ UNCHANGED << inputs, travel, pc, raised, sem_value, sem_waiters,
                    ready, subtasks, task_pc, calls, reply, first_done,
                    completed, cb_log, cb_seen, results, processing_time,
                    synth_calls, synth_reply, combined, runs, report >>

\* the replies of the overlapping runs: every kind of reply, with one
\* text for a content
OverlapResponses == {r \in Responses : r.content \in {"text", NoneVal}}

OverlapNext ==
    \/ Construct
    \/ ExecuteStart
    \/ OverlapStartB
    \/ \E i \in 1..MaxItems + 1 : StartTask(i)
    \/ \E i \in 1..MaxItems + 1 : ResumeTask(i)
    \/ \E i \in 1..MaxItems + 1 :
          \E r \in OverlapResponses : OverlapComplete(i, r)
    \/ OverlapReturnA
    \/ OverlapReturnB

OverlapSpec == OverlapInit /\ [][OverlapNext]_vars

(* ---- C25 ---- *)

ItemsOf(list) == {list[k].item : k \in 1..Len(list)}
Range(seq) == {seq[k] : k \in 1..Len(seq)}

\* C25: two execute calls that overlap on one instance share the permits:
\* the processor calls in flight of both together never exceed
\* max_concurrent; each call's callback is given 1, 2, ... and the number
\* of its own items; and each call's report holds its own items only.
C25_OverlappingRuns ==
    /\ Cardinality(InSection) <= max_concurrent
    /\ \A k \in 1..Len(cb_log) : cb_log[k] = << k, Len(items) >>
    /\ \A k \in 1..Len(run_b.cb_log) :
          run_b.cb_log[k] = << k, Len(run_b.items) >>
    /\ pc = "returned" =>
          /\ report.total_items = Len(items)
          /\ Len(report.results) + Len(report.failures) = Len(items)
          /\ ItemsOf(report.results) \cup ItemsOf(report.failures)
                = Range(items)
    /\ run_b.pc = "returned" =>
          /\ run_b.report.total_items = Len(run_b.items)
          /\ Len(run_b.report.results) + Len(run_b.report.failures)
                = Len(run_b.items)
          /\ ItemsOf(run_b.report.results) \cup ItemsOf(run_b.report.failures)
                = Range(run_b.items)

\* the second call has returned its one item while the first call, begun
\* earlier, has one of its two items done and the other in flight
C25_Witness ==
    /\ run_b.pc = "returned"
    /\ run_b.cb_log = << << 1, 1 >> >>
    /\ pc = "gather"
    /\ Len(items) = 2
    /\ cb_log = << << 1, 2 >> >>
    /\ \E i \in Ids : task_pc[i] = "inflight"

(* ---- travel_wide_research, main.py lines 1629-1728 ---- *)

\* list(destinations_found)[:10], line 1691, and found[:3], line 1687
WebLimit == 10
RegexKeep == 3

\* a key the handler's dict does not hold
Absent == "<absent>"

\* what the model's analyses of a document say
DocJsonA ==
    "{\"destinations\": [\"Bali\", \"Cairo\", \"Doha\", \"Fiji\", \"Lima\", \"Oslo\"]}"
DocJsonB ==
    "{\"destinations\": [\"Oslo\", \"Paris\", \"Quito\", \"Rome\", \"Seoul\", \"Tokyo\"]}"
DocProse == "Tours to Bali, Cairo and Doha from Fiji"
DocJsonNoList == "{\"destinations\": \"Paris\"}"
DocJsonArray == "[\"Oslo\"]"
DocTexts == {"", DocJsonA, DocJsonB, DocProse, DocJsonNoList, DocJsonArray}

\* json.loads(text), line 1680, on these texts: the kind of value it
\* returns, or "error" for JSONDecodeError, and the value under
\* "destinations" when that is a list
JsonLoads(text) ==
    CASE text = DocJsonA ->
           [kind |-> "dict", is_list |-> TRUE,
            destinations |-> << "Bali", "Cairo", "Doha", "Fiji", "Lima",
                                "Oslo" >>]
      [] text = DocJsonB ->
           [kind |-> "dict", is_list |-> TRUE,
            destinations |-> << "Oslo", "Paris", "Quito", "Rome", "Seoul",
                                "Tokyo" >>]
      [] text = DocJsonNoList ->
           [kind |-> "dict", is_list |-> FALSE, destinations |-> << >>]
      [] text = DocJsonArray ->
           [kind |-> "list", is_list |-> FALSE, destinations |-> << >>]
      [] OTHER ->
           [kind |-> "error", is_list |-> FALSE, destinations |-> << >>]

\* re.findall(r'[A-Z][a-z]+(?:\s+[A-Z][a-z]+)*', text), line 1686
FindAll(text) ==
    CASE text = DocJsonA ->
           << "Bali", "Cairo", "Doha", "Fiji", "Lima", "Oslo" >>
      [] text = DocJsonB ->
           << "Oslo", "Paris", "Quito", "Rome", "Seoul", "Tokyo" >>
      [] text = DocProse -> << "Tours", "Bali", "Cairo", "Doha", "Fiji" >>
      [] text = DocJsonNoList -> << "Paris" >>
      [] text = DocJsonArray -> << "Oslo" >>
      [] OTHER -> << >>

\* lines 1676-1687 for one entry of document_analysis: what it adds to
\* destinations_found.  A list parsed.get cannot be called on
\* (AttributeError) goes the way of a text that is not JSON.
Extracted(result) ==
    IF ~Truthy(result) THEN {}
    ELSE LET parsed == JsonLoads(result)
             found == FindAll(result)
         IN  IF parsed.kind = "dict"
             THEN IF parsed.is_list
                  THEN {parsed.destinations[k] :
                          k \in 1..Len(parsed.destinations)}
                  ELSE {}
             ELSE {found[k] : k \in 1..Min(Len(found), RegexKeep)}

\* lines 1674-1687
DestinationsFound(analysis) ==
    UNION {Extracted(analysis[k].result) : k \in 1..Len(analysis)}

\* variant: every destination found is researched
FirstOfAll(S, n) == {S}

\* list(S)[:n], line 1691: a set lists its members in an order of its
\* own, so any n of them may be the ones kept
FirstOf(S, n) == {T \in SUBSET S : Cardinality(T) = Min(Cardinality(S), n)}

\* lines 1693-1696
RECURSIVE WebItems(_)
WebItems(T) ==
    IF T = {} THEN << >>
    ELSE LET dest == CHOOSE d \in T : TRUE
         IN  << [destination |-> dest,
                 query |-> dest \o " tour packages 2025 price"] >>
             \o WebItems(T \ {dest})

Reply200(c) ==
    [exc |-> "none", status_code |-> 200, body |-> "content", content |-> c]
Reply500 ==
    [exc |-> "none", status_code |-> 500, body |-> "none", content |-> NoneVal]
DocReplies == {Reply200(c) : c \in DocTexts \cup {NoneVal}} \cup {Reply500}
WebReplies == {Reply200("text"), Reply200(NoneVal), Reply500}
SynthReplies == {Reply200("text"), Reply500}

\* How execute(its, instruction, prompt) ends when the call of item k is
\* answered by replies[k] and the synthesis call by sr, without a
\* progress callback: the end of the run ExecuteStart .. SynthRespond
\* takes, by the same definitions.
ExecuteOutcome(its, replies, prompt, sr, t) ==
    LET sts == [k \in 1..Len(its) |->
                  Timed(ApplyReply(SubTask(k, its[k]), replies[k]))]
        rs == GatherResults(sts)
        succ == Successful(rs)
        fail == Failed(rs)
    IN  IF DivRaises(PyDiv(t, Len(its)))
        THEN [raised |-> "ZeroDivisionError", results |-> << >>,
              synthesis |-> NoneVal]
        ELSE IF ShouldSynthesize(prompt, succ)
             THEN IF BuildRaises(SynthesisInput(succ))
                  THEN [raised |-> "TypeError", results |-> << >>,
                        synthesis |-> NoneVal]
                  ELSE [raised |-> NoneVal,
                        results |-> BuildReport(its, succ, fail,
                                                SynthesisResult(sr), t).results,
                        synthesis |-> SynthesisResult(sr)]
             ELSE [raised |-> NoneVal,
                   results |-> BuildReport(its, succ, fail, NoneVal, t).results,
                   synthesis |-> NoneVal]

\* request.documents
DocumentLists == {[k \in 1..n |-> "doc"] : n \in 0..MaxItems}

\* `except Exception`, line 1722
Caught(e) == e # "CancelledError"

\* everything but the handler
run == << max_concurrent, items, synthesis_prompt, progress_callback, pc,
          raised, sem_value, sem_waiters, ready, subtasks, task_pc, calls,
          reply, first_done, completed, cb_log, cb_seen, results,
          processing_time, synth_calls, synth_reply, combined, runs, run_b,
          report >>

\* a request, and lines 1637-1645
TravelInit ==
    /\ max_concurrent = 0
    /\ items = << >>
    /\ synthesis_prompt = NoneVal
    /\ progress_callback = "none"
    /\ pc = "request"
    /\ raised = NoneVal
    /\ sem_value = 0
    /\ sem_waiters = << >>
    /\ ready = << >>
    /\ subtasks = << >>
    /\ task_pc = << >>
    /\ calls = << >>
    /\ reply = << >>
    /\ first_done = 0
    /\ completed = 0
    /\ cb_log = << >>
    /\ cb_seen = << >>
    /\ results = << >>
    /\ processing_time = 0
    /\ synth_calls = << >>
    /\ synth_reply = NoReply
    /\ combined = NoneVal
    /\ runs = 0
    /\ run_b = NoneVal
    /\ report = NoReport
    /\ \E avail \in BOOLEAN, web \in BOOLEAN, docs \in DocumentLists,
          k \in {-1, 0, 1} :
          travel =
            [ pc |-> "step1",
              WIDE_RESEARCH_AVAILABLE |-> avail,
              documents |-> docs,
              include_web_research |-> web,
              max_concurrent |-> k,
              wr |-> "unbound",
              docs_run |-> "not started",
              in_flight |-> 0,
              destinations_found |-> {},
              web_items |-> << >>,
              raised |-> NoneVal,
              results |-> [ document_analysis |-> << >>,
                            web_research |-> << >>,
                            synthesis |-> "",
                            success |-> TRUE,
                            error |-> Absent,
                            document_synthesis |-> Absent,
                            market_synthesis |-> Absent ] ]

\* lines 1649-1652, to the await of the first execute: the instance is
\* made, which a negative limit makes raise, and the run begun
TravelStep1 ==
    /\ travel.pc = "step1"
    /\ IF travel.WIDE_RESEARCH_AVAILABLE /\ travel.documents # << >>
       THEN IF travel.max_concurrent < 0
            THEN travel' = [travel EXCEPT !.pc = "except",
                                          !.raised = "ValueError"]
            ELSE travel' = [travel EXCEPT !.pc = "docs_running",
                                          !.wr = "bound",
                                          !.docs_run = "running",
                                          !.in_flight = @ + 1]
       ELSE travel' = [travel EXCEPT !.pc = "step2"]
    /\ UNCHANGED run

\* the first execute ends, lines 1652-1671, the call of document k
\* answered by replies[k]; with no permit to take (limit 0) it never does
TravelDocsEnd(replies, sr) ==
    /\ travel.pc = "docs_running"
    /\ travel.max_concurrent >= 1
    /\ \E t \in 0..MaxElapsed :
         LET doc_analysis == ExecuteOutcome(travel.documents, replies,
                                            "Aggregate", sr, t)
         IN  IF doc_analysis.raised # NoneVal
             THEN travel' = [travel EXCEPT !.pc = "except",
                                           !.raised = doc_analysis.raised,
                                           !.docs_run = "raised",
                                           !.in_flight = @ - 1]
             ELSE travel' =
                    [travel EXCEPT
                       !.pc = "step2",
                       !.docs_run = "returned",
                       !.in_flight = @ - 1,
                       !.results.document_analysis = doc_analysis.results,
                       !.results.document_synthesis = doc_analysis.synthesis]
    /\ UNCHANGED run

\* lines 1674-1687
TravelExtract ==
    /\ travel.pc = "step2"
    /\ travel' = [travel EXCEPT
                    !.pc = "step3",
                    !.destinations_found =
                        DestinationsFound(travel.results.document_analysis)]
    /\ UNCHANGED run

\* lines 1690-1699, to the await of the second execute; `wr` is a local
\* the handler may not have bound
TravelStep3 ==
    /\ travel.pc = "step3"
    /\ IF travel.include_web_research /\ travel.destinations_found # {}
       THEN \E T \in FirstOf(travel.destinations_found, WebLimit) :
              IF travel.WIDE_RESEARCH_AVAILABLE
              THEN IF travel.wr = "unbound"
                   THEN travel' = [travel EXCEPT
                                     !.pc = "except",
                                     !.raised = "UnboundLocalError",
                                     !.web_items = WebItems(T)]
                   ELSE travel' = [travel EXCEPT
                                     !.pc = "web_running",
                                     !.in_flight = @ + 1,
                                     !.web_items = WebItems(T)]
              ELSE travel' = [travel EXCEPT !.pc = "return",
                                            !.web_items = WebItems(T)]
       ELSE travel' = [travel EXCEPT !.pc = "return"]
    /\ UNCHANGED run

\* the second execute ends, lines 1699-1717
TravelWebEnd(r1, r2, sr) ==
    /\ travel.pc = "web_running"
    /\ \E t \in 0..MaxElapsed :
         LET replies == [k \in 1..Len(travel.web_items) |->
                           IF k = 1 THEN r1 ELSE r2]
             web_research == ExecuteOutcome(travel.web_items, replies,
                                            "Create", sr, t)
         IN  IF web_research.raised # NoneVal
             THEN travel' = [travel EXCEPT !.pc = "except",
                                           !.raised = web_research.raised,
                                           !.in_flight = @ - 1]
             ELSE travel' =
                    [travel EXCEPT
                       !.pc = "return",
                       !.in_flight = @ - 1,
                       !.results.web_research = web_research.results,
                       !.results.market_synthesis = web_research.synthesis]
    /\ UNCHANGED run

\* lines 1719-1720
TravelReturn ==
    /\ travel.pc = "return"
    /\ travel' = [travel EXCEPT !.pc = "responded"]
    /\ UNCHANGED run

\* lines 1722-1728
TravelExcept ==
    /\ travel.pc = "except"
    /\ IF Caught(travel.raised)
       THEN travel' = [travel EXCEPT !.pc = "responded",
                                     !.results.success = FALSE,
                                     !.results.error = travel.raised]
       ELSE travel' = [travel EXCEPT !.pc = "propagated"]
    /\ UNCHANGED run

TravelNext ==
    \/ TravelStep1
    \/ \E replies \in [1..MaxItems -> DocReplies] :
          \E sr \in SynthReplies : TravelDocsEnd(replies, sr)
    \/ TravelExtract
    \/ TravelStep3
    \/ \E r1 \in WebReplies, r2 \in WebReplies :
          \E sr \in SynthReplies : TravelWebEnd(r1, r2, sr)
    \/ TravelReturn
    \/ TravelExcept

TravelSpec == TravelInit /\ [][TravelNext]_vars

(* ---- C29 ---- *)

\* C29: the handler's two runs follow one another on one instance: the
\* web research begins only once the document analysis has returned,
\* only when it was asked for and a destination was found, and over at
\* most ten items; the instance is never used unmade; and whatever a
\* phase raises ends in a response with success False and an error.
C29_PhasesSequential ==
    /\ travel.in_flight <= 1
    /\ travel.pc = "web_running" =>
          /\ travel.docs_run = "returned"
          /\ travel.in_flight = 1
          /\ travel.wr = "bound"
          /\ travel.include_web_research
          /\ travel.destinations_found # {}
    /\ Len(travel.web_items) <= WebLimit
    /\ travel.raised # "UnboundLocalError"
    /\ travel.pc # "propagated"
    /\ (travel.pc = "responded" /\ travel.raised # NoneVal) =>
          /\ travel.results.success = FALSE
          /\ travel.results.error # Absent

\* both runs were made and the response sent: the documents named eleven
\* destinations, ten of which were researched
C29_Witness ==
    /\ travel.pc = "responded"
    /\ travel.results.success
    /\ Cardinality(travel.destinations_found) > WebLimit
    /\ Len(travel.web_items) = WebLimit
    /\ Len(travel.results.web_research) >= 1
    /\ Len(travel.results.document_analysis) = 2

====
